---- MODULE Spec2Model ----
(***************************************************************************)
(* Model of MidiReader.load_file (src/deepmusic/midireader.py): the format *)
(* checks, the per-track message loop with its buffer of pressed notes,    *)
(* the end-of-track checks and the assembly of the song.                   *)
(*                                                                         *)
(* The decoded file (midi_data) is the input.  Its header and its tempo    *)
(* map are fixed by Init; the messages of the other tracks are read one at *)
(* a time, each drawn from the message alphabet when the loop reaches it.  *)
(***************************************************************************)
EXTENDS Integers, Sequences, FiniteSets, TLC

\* ---------------------------------------------------------------- bounds
MaxTracks == 2        \* most tracks after the tempo map (SpecSong)
MaxNotes == 4         \* most notes created in one track
MaxTick == 1          \* largest abs_tick a track reaches
MaxOpen == 3          \* most notes pressed and not released at once

\* ------------------------------------------------------ program constants
MINIMUM_TRACK_LENGTH == 4
META_INFO_TYPES == {"midi_port", "track_name", "lyrics", "end_of_track"}
META_TEMPO_TYPES == {"key_signature", "set_tempo", "time_signature"}

\* music.Note() before its duration is assigned
NoDuration == -1
\* music.Track() before set_instrument
NoInstrument == -1

\* ------------------------------------------------------- input alphabets
MidiTypes == 0 .. 2
TicksPerBeat == {0, 96, 128}
Velocities == {64}
Programs == {0}
OtherTypes == {"sysex"}

TempoMaps == {<<TRUE>>, <<FALSE>>, <<TRUE, FALSE>>}

\* What the messages of a file are drawn from.
\* Rich, the files of Spec: a tempo map and at most one other track, of
\* note_on, note_off and track_name messages only, with two pitches and
\* delta-times 0 and 1.
\* Plain, the files of SpecSong: a tempo map and at most MaxTracks other
\* tracks, of messages of every type, with one pitch, all at tick 0.
\* on_channels: the channels of the note_on messages with a velocity;
\* channels: those of the other messages; drums: what a program_change tells.
Rich == [pitches |-> {60, 62}, deltas |-> {0, 1}, on_channels |-> {0},
         channels |-> {0}, releases |-> {"note_off", "note_on"},
         metas |-> {"track_name"}]
Plain == [pitches |-> {60}, deltas |-> {0}, on_channels |-> 0 .. (MaxTracks - 1),
          channels |-> {0}, releases |-> {"note_off"},
          metas |-> {"track_name", "set_tempo", "cue_marker"},
          drums |-> BOOLEAN, ignored |-> {"control_change"}]

\* Typed, the files of SpecTypes: a tempo map and at most one other track, of
\* fewer notes than MINIMUM_TRACK_LENGTH, of messages of every type and meta
\* messages of every kind, on channels 0 and 1, with delta-times 0 and 1,
\* one pitch and two programs.
Typed == [pitches |-> {60}, deltas |-> {0, 1}, on_channels |-> {0, 1},
          channels |-> {0, 1}, releases |-> {"note_off", "note_on"},
          metas |-> META_INFO_TYPES \cup META_TEMPO_TYPES \cup {"cue_marker", "text"},
          drums |-> {FALSE}, ignored |-> {"control_change", "aftertouch", "pitchwheel"},
          programs |-> {0, 1}, others |-> {"sysex", "polytouch"}]

\* Timed, the files of SpecTicks: a tempo map and at most MaxTracks other
\* tracks, each of fewer notes than MINIMUM_TRACK_LENGTH, of note_on,
\* note_off, track_name and control_change messages, with two pitches and
\* delta-times 0 and 1.
Timed == [pitches |-> {60, 62}, deltas |-> {0, 1}, on_channels |-> 0 .. (MaxTracks - 1),
          channels |-> {0}, releases |-> {"note_off"},
          metas |-> {"track_name"}, ignored |-> {"control_change"}]

Msg(ty, me, dt, no, ve, ch, pr, dr) ==
    [type |-> ty, meta |-> me, time |-> dt, note |-> no, velocity |-> ve,
     channel |-> ch, program |-> pr, drum |-> dr]

NoMessage == Msg("none", FALSE, 0, 0, 0, 0, 0, FALSE)

VARIABLES
    midi_type,       \* midi_data.type
    ticks_per_beat,  \* midi_data.ticks_per_beat
    nb_tracks,       \* len(midi_data.tracks), the tempo map included
    tempo_map,       \* midi_data.tracks[0], not empty: is each message a MetaMessage
    pc,              \* "start", "messages" (in the message loop of track i), "done"
    i,               \* index of the track being read (0: none yet)
    message,         \* the message read last
    abs_tick,
    buffer_notes,
    new_track,
    new_song,        \* new_song.tracks
    nb_created,      \* notes created in track i so far (names the Note objects)
    track_log,       \* history: for each track read to its end, its open
                     \* notes, its notes, its drum flag, whether it was kept
    result           \* what load_file ends with

vars == <<midi_type, ticks_per_beat, nb_tracks, tempo_map, pc, i, message,
          abs_tick, buffer_notes, new_track, new_song, nb_created, track_log,
          result>>

header == <<midi_type, ticks_per_beat, nb_tracks, tempo_map>>

\* ------------------------------------------------------------ data model
Track(src) == [src |-> src, notes |-> <<>>, instrument |-> NoInstrument,
               is_drum |-> FALSE]

Note(id) == [id |-> id, tick |-> 0, note |-> 0, duration |-> NoDuration]

\* result: none yet, the exception raised (with the track being read, 0
\* before the track loop), or the song returned (it is new_song)
Running == [kind |-> "none", count |-> 0, track |-> 0]
Failure(kind, n, t) == [kind |-> kind, count |-> n, track |-> t]
Returned == [kind |-> "Song", count |-> 0, track |-> 0]

RemoveAt(s, k) == SubSeq(s, 1, k - 1) \o SubSeq(s, k + 1, Len(s))

\* ------------------------------------------------------------------ Init
InitFile(n) ==
    /\ midi_type \in MidiTypes
    /\ ticks_per_beat \in TicksPerBeat
    /\ nb_tracks \in 0 .. n
    /\ tempo_map \in (IF nb_tracks = 0 THEN {<<>>} ELSE TempoMaps)
    /\ pc = "start"
    /\ i = 0
    /\ message = NoMessage
    /\ abs_tick = 0
    /\ buffer_notes = <<>>
    /\ new_track = Track(0)
    /\ new_song = <<>>
    /\ nb_created = 0
    /\ track_log = <<>>
    /\ result = Running

\* a file of a tempo map and at most one other track
Init == InitFile(2)

\* a file of a tempo map and at most MaxTracks other tracks
InitSong == InitFile(MaxTracks + 1)

\* load_file is left with res: its local variables are gone, the song is what
\* it returns (nothing when it raises)
Exit(res, song) ==
    /\ result' = res
    /\ pc' = "done"
    /\ new_song' = song
    /\ i' = 0
    /\ message' = NoMessage
    /\ abs_tick' = 0
    /\ buffer_notes' = <<>>
    /\ new_track' = Track(0)
    /\ nb_created' = 0

\* mutant: the failure is noted and the loop goes on
RaiseAndGoOn(kind, n) ==
    /\ result' = [kind |-> kind, count |-> n, track |-> i]
    /\ UNCHANGED <<pc, new_song, i, message, abs_tick, buffer_notes, new_track,
                   nb_created>>

\* raise MidiInvalidException(...): nothing in load_file catches it
Raise(kind, n) == Exit(Failure(kind, n, i), <<>>)

\* mutant: the song is returned without the check that it has a track
ForTrackAnySong(song) ==
    IF i < nb_tracks - 1
       THEN /\ i' = i + 1
            /\ new_track' = Track(i + 1)
            /\ buffer_notes' = <<>>
            /\ abs_tick' = 0
            /\ nb_created' = 0
            /\ new_song' = song
            /\ UNCHANGED <<message, result>>
            /\ pc' = "messages"
       ELSE Exit(Returned, song)

\* mutant: abs_tick is not set back to 0 for the next track
ForTrackTickGoesOn(song) ==
    IF i < nb_tracks - 1
       THEN /\ i' = i + 1
            /\ new_track' = Track(i + 1)
            /\ buffer_notes' = <<>>
            /\ nb_created' = 0
            /\ new_song' = song
            /\ UNCHANGED <<message, result, abs_tick>>
            /\ pc' = "messages"
       ELSE IF song = <<>> THEN Raise("EmptySong", 0)
                           ELSE Exit(Returned, song)

\* "for i, track in enumerate(midi_data.tracks[1:])", song being
\* new_song.tracks: the loop takes the next track, or it ends and the song is
\* returned unless it is empty ("All track read")
ForTrack(song) ==
    IF i < nb_tracks - 1
       THEN /\ i' = i + 1
            /\ new_track' = Track(i + 1)
            /\ buffer_notes' = <<>>
            /\ abs_tick' = 0
            /\ nb_created' = 0
            /\ new_song' = song
            /\ UNCHANGED <<message, result>>
            /\ pc' = "messages"
       ELSE IF song = <<>> THEN Raise("EmptySong", 0)
                           ELSE Exit(Returned, song)

\* ---------------------------------------------------------- format checks
\* mutant: the timing is checked before the type
FormatErrorTimingFirst ==
    IF ~(0 < ticks_per_beat /\ ticks_per_beat < 128) THEN "UnsupportedTiming"
    ELSE IF midi_type # 1 THEN "UnsupportedFormat"
    ELSE IF nb_tracks = 0 THEN "IndexError"
    ELSE IF \E k \in 1 .. Len(tempo_map) : ~tempo_map[k] THEN "StructuralViolation"
    ELSE "none"

\* The failure of the checks made before the track loop, "none" when they
\* pass; midi_data.tracks[0] of a file without tracks is an IndexError.
FormatError ==
    IF midi_type # 1 THEN "UnsupportedFormat"
    ELSE IF ~(0 < ticks_per_beat /\ ticks_per_beat < 128) THEN "UnsupportedTiming"
    ELSE IF nb_tracks = 0 THEN "IndexError"
    ELSE IF \E k \in 1 .. Len(tempo_map) : ~tempo_map[k] THEN "StructuralViolation"
    ELSE "none"

CheckFormat ==
    /\ pc = "start"
    /\ IF FormatError # "none" THEN Raise(FormatError, 0)
                               ELSE ForTrack(<<>>)
    /\ UNCHANGED <<header, track_log>>

\* ----------------------------------------------------------- message loop
\* m is the next message of track i
Read(m) ==
    /\ pc = "messages"
    /\ abs_tick + m.time <= MaxTick
    /\ UNCHANGED <<header, track_log>>

\* "for message in track: abs_tick += message.time", and the message is
\* passed without a raise
Pass(m) ==
    /\ message' = m
    /\ abs_tick' = abs_tick + m.time
    /\ UNCHANGED <<pc, i, new_song, result>>

\* mutant: a tempo meta message is only a warning
MetaMessageTempoWarned(ty, dt) ==
    LET m == Msg(ty, TRUE, dt, 0, 0, 0, 0, FALSE) IN
    /\ Read(m)
    /\ IF ty \in META_INFO_TYPES \cup META_TEMPO_TYPES
          THEN /\ Pass(m)
               /\ UNCHANGED <<buffer_notes, new_track, nb_created>>
          ELSE Raise("UnsupportedMeta", 0)

MetaMessage(ty, dt) ==
    LET m == Msg(ty, TRUE, dt, 0, 0, 0, 0, FALSE) IN
    /\ Read(m)
    /\ IF ty \in META_INFO_TYPES
          THEN /\ Pass(m)
               /\ UNCHANGED <<buffer_notes, new_track, nb_created>>
          ELSE IF ty \in META_TEMPO_TYPES
                  THEN Raise("MisplacedTempoMeta", 0)
                  ELSE Raise("UnsupportedMeta", 0)

\* mutant: the channel is compared with the number of tracks kept so far
NoteAddedKeptIndex(no, ve, ch, dt) ==
    LET m == Msg("note_on", FALSE, dt, no, ve, ch, 0, FALSE)
        new_note == [Note(nb_created + 1) EXCEPT !.tick = abs_tick + dt, !.note = no]
    IN  /\ ve # 0
        /\ Len(buffer_notes) < MaxOpen
        /\ nb_created < MaxNotes
        /\ Read(m)
        /\ IF Len(new_song) # ch
              THEN Raise("ChannelTrackMismatch", 0)
              ELSE /\ Pass(m)
                   /\ buffer_notes' = Append(buffer_notes, new_note)
                   /\ nb_created' = nb_created + 1
                   /\ UNCHANGED new_track

\* note_on with a velocity: "Note added"
NoteAdded(no, ve, ch, dt) ==
    LET m == Msg("note_on", FALSE, dt, no, ve, ch, 0, FALSE)
        new_note == [Note(nb_created + 1) EXCEPT !.tick = abs_tick + dt, !.note = no]
    IN  /\ ve # 0
        /\ Len(buffer_notes) < MaxOpen
        /\ nb_created < MaxNotes
        /\ Read(m)
        /\ IF i - 1 # ch
              THEN Raise("ChannelTrackMismatch", 0)
              ELSE /\ Pass(m)
                   /\ buffer_notes' = Append(buffer_notes, new_note)
                   /\ nb_created' = nb_created + 1
                   /\ UNCHANGED new_track

\* list.remove(x): removes the first element equal to x; Note objects are
\* equal when they are the same object
FirstIndex(s, x) == CHOOSE k \in 1 .. Len(s) :
                        /\ s[k].id = x.id
                        /\ \A j \in 1 .. (k - 1) : s[j].id # x.id
ListRemove(s, x) == RemoveAt(s, FirstIndex(s, x))

\* mutant: the newest pressed note of the pitch is released, not the oldest
ReleaseScanNewest(buf, notes, k, no, tick) ==
    LET m == {j \in 1 .. Len(buf) : buf[j].note = no} IN
    IF m = {} THEN [buffer |-> buf, notes |-> notes]
    ELSE LET j == CHOOSE x \in m : \A y \in m : y <= x
         IN  [buffer |-> RemoveAt(buf, j),
              notes |-> Append(notes, [buf[j] EXCEPT !.duration = tick - buf[j].tick])]

\* mutant: a released note is put at the head of the track's notes
RECURSIVE ReleaseScanPrepend(_, _, _, _, _)
ReleaseScanPrepend(buf, notes, k, no, tick) ==
    IF k > Len(buf) THEN [buffer |-> buf, notes |-> notes]
    ELSE LET note == buf[k] IN
         IF note.note = no
            THEN LET closed == [note EXCEPT !.duration = tick - note.tick]
                 IN  ReleaseScanPrepend(ListRemove(buf, note), <<closed>> \o notes,
                                        k + 1, no, tick)
            ELSE ReleaseScanPrepend(buf, notes, k + 1, no, tick)

\* mutant: the duration of a released note is its tick minus abs_tick
RECURSIVE ReleaseScanBackwards(_, _, _, _, _)
ReleaseScanBackwards(buf, notes, k, no, tick) ==
    IF k > Len(buf) THEN [buffer |-> buf, notes |-> notes]
    ELSE LET note == buf[k] IN
         IF note.note = no
            THEN LET closed == [note EXCEPT !.duration = note.tick - tick]
                 IN  ReleaseScanBackwards(ListRemove(buf, note), Append(notes, closed),
                                          k + 1, no, tick)
            ELSE ReleaseScanBackwards(buf, notes, k + 1, no, tick)

\* mutant: a released note is not removed from the buffer
RECURSIVE ReleaseScanNoRemove(_, _, _, _, _)
ReleaseScanNoRemove(buf, notes, k, no, tick) ==
    IF k > Len(buf) THEN [buffer |-> buf, notes |-> notes]
    ELSE LET note == buf[k] IN
         IF note.note = no
            THEN LET closed == [note EXCEPT !.duration = tick - note.tick]
                 IN  ReleaseScanNoRemove(buf, Append(notes, closed), k + 1, no, tick)
            ELSE ReleaseScanNoRemove(buf, notes, k + 1, no, tick)

\* "for note in buffer_notes: if note.note == message.note: ..." with the
\* list iterator at index k (1-based): the iterator moves on by one after
\* every element, whether or not the body removed one from the list.
RECURSIVE ReleaseScan(_, _, _, _, _)
ReleaseScan(buf, notes, k, no, tick) ==
    IF k > Len(buf) THEN [buffer |-> buf, notes |-> notes]
    ELSE LET note == buf[k] IN
         IF note.note = no
            THEN LET closed == [note EXCEPT !.duration = tick - note.tick]
                 IN  ReleaseScan(ListRemove(buf, note), Append(notes, closed),
                                 k + 1, no, tick)
            ELSE ReleaseScan(buf, notes, k + 1, no, tick)

\* mutant: a release that finds no pressed note of its pitch is an error
NoteReleasedStrict(ty, no, ch, dt) ==
    LET m == Msg(ty, FALSE, dt, no, 0, ch, 0, FALSE)
        r == ReleaseScan(buffer_notes, new_track.notes, 1, no, abs_tick + dt)
    IN  /\ Read(m)
        /\ IF r.buffer = buffer_notes
              THEN Raise("UnsupportedMessage", 0)
              ELSE /\ Pass(m)
                   /\ buffer_notes' = r.buffer
                   /\ new_track' = [new_track EXCEPT !.notes = r.notes]
                   /\ UNCHANGED nb_created

\* mutant: the channel of a release is compared with the track, as that of
\* a note_on with a velocity is
NoteReleasedOnChannel(ty, no, ch, dt) ==
    LET m == Msg(ty, FALSE, dt, no, 0, ch, 0, FALSE)
        r == ReleaseScan(buffer_notes, new_track.notes, 1, no, abs_tick + dt)
    IN  /\ Read(m)
        /\ IF i - 1 # ch
              THEN Raise("ChannelTrackMismatch", 0)
              ELSE /\ Pass(m)
                   /\ buffer_notes' = r.buffer
                   /\ new_track' = [new_track EXCEPT !.notes = r.notes]
                   /\ UNCHANGED nb_created

\* note_off, or note_on with velocity 0: "Note released"
NoteReleased(ty, no, ch, dt) ==
    LET m == Msg(ty, FALSE, dt, no, 0, ch, 0, FALSE)
        r == ReleaseScan(buffer_notes, new_track.notes, 1, no, abs_tick + dt)
    IN  /\ Read(m)
        /\ Pass(m)
        /\ buffer_notes' = r.buffer
        /\ new_track' = [new_track EXCEPT !.notes = r.notes]
        /\ UNCHANGED nb_created

\* music.Track.set_instrument: the pair <<the track after the call, the
\* value returned>>
SetInstrument(track, m) ==
    IF track.instrument # NoInstrument THEN <<track, FALSE>>
    ELSE <<[track EXCEPT !.instrument = m.program, !.is_drum = m.drum], TRUE>>

\* mutant: the value returned by set_instrument is not looked at
ProgramChangeUnchecked(pr, dr, ch, dt) ==
    LET m == Msg("program_change", FALSE, dt, 0, 0, ch, pr, dr)
        r == SetInstrument(new_track, m)
    IN  /\ Read(m)
        /\ Pass(m)
        /\ new_track' = r[1]
        /\ UNCHANGED <<buffer_notes, nb_created>>

ProgramChange(pr, dr, ch, dt) ==
    LET m == Msg("program_change", FALSE, dt, 0, 0, ch, pr, dr)
        r == SetInstrument(new_track, m)
    IN  /\ Read(m)
        /\ IF ~r[2]
              THEN Raise("DuplicateInstrument", 0)
              ELSE /\ Pass(m)
                   /\ new_track' = r[1]
                   /\ UNCHANGED <<buffer_notes, nb_created>>

\* mutant: a control_change lets go of every pressed note
IgnoredAllNotesOff(ty, dt) ==
    LET m == Msg(ty, FALSE, dt, 0, 0, 0, 0, FALSE) IN
    /\ Read(m)
    /\ Pass(m)
    /\ buffer_notes' = IF ty = "control_change" THEN <<>> ELSE buffer_notes
    /\ UNCHANGED <<new_track, nb_created>>

\* control_change, aftertouch, pitchwheel
Ignored(ty, dt) ==
    LET m == Msg(ty, FALSE, dt, 0, 0, 0, 0, FALSE) IN
    /\ Read(m)
    /\ Pass(m)
    /\ UNCHANGED <<buffer_notes, new_track, nb_created>>

\* mutant: a message of an unsupported type is skipped
UnsupportedSkipped(ty, dt) ==
    LET m == Msg(ty, FALSE, dt, 0, 0, 0, 0, FALSE) IN
    /\ Read(m)
    /\ Pass(m)
    /\ UNCHANGED <<buffer_notes, new_track, nb_created>>

Unsupported(ty, dt) ==
    /\ Read(Msg(ty, FALSE, dt, 0, 0, 0, 0, FALSE))
    /\ Raise("UnsupportedMessage", 0)

\* ----------------------------------------------------------- end of track
\* mutant: a track of exactly MINIMUM_TRACK_LENGTH notes is ignored too
KeptAbove(track) ==
    /\ Len(track.notes) > MINIMUM_TRACK_LENGTH
    /\ ~track.is_drum

\* The track passes the two checks that "continue" past the append
Kept(track) ==
    /\ ~(Len(track.notes) < MINIMUM_TRACK_LENGTH)
    /\ ~track.is_drum

\* The entry of track_log for the track whose message loop is over
Logged(kept) == [open |-> Len(buffer_notes), notes |-> Len(new_track.notes),
                 drum |-> new_track.is_drum, kept |-> kept]

\* mutant: no check that all notes have ended
TrackReadNoCheck ==
    /\ pc = "messages"
    /\ track_log' = Append(track_log, Logged(Kept(new_track)))
    /\ ForTrack(IF Kept(new_track) THEN Append(new_song, new_track) ELSE new_song)
    /\ UNCHANGED header

\* mutant: the track is filtered before the check that all notes have ended
TrackReadFilterFirst ==
    /\ pc = "messages"
    /\ track_log' = Append(track_log, Logged(buffer_notes = <<>> /\ Kept(new_track)))
    /\ IF ~Kept(new_track) THEN ForTrack(new_song)
       ELSE IF buffer_notes # <<>>
               THEN Raise("UnterminatedNote", Len(buffer_notes))
               ELSE ForTrack(Append(new_song, new_track))
    /\ UNCHANGED header

\* mutant: the track is put at the head of the song
TrackReadPrepend ==
    /\ pc = "messages"
    /\ track_log' = Append(track_log, Logged(buffer_notes = <<>> /\ Kept(new_track)))
    /\ IF buffer_notes # <<>>
          THEN Raise("UnterminatedNote", Len(buffer_notes))
          ELSE ForTrack(IF Kept(new_track) THEN <<new_track>> \o new_song
                                           ELSE new_song)
    /\ UNCHANGED header

\* "Track read": the message loop of track i is over
TrackRead ==
    /\ pc = "messages"
    /\ track_log' = Append(track_log, Logged(buffer_notes = <<>> /\ Kept(new_track)))
    /\ IF buffer_notes # <<>>
          THEN Raise("UnterminatedNote", Len(buffer_notes))
          ELSE ForTrack(IF Kept(new_track) THEN Append(new_song, new_track)
                                           ELSE new_song)
    /\ UNCHANGED header

\* A message of a note, or an informational meta message, drawn from the
\* alphabet A, is read
NoteStep(A) ==
    \/ \E ty \in A.metas, dt \in A.deltas : MetaMessage(ty, dt)
    \/ \E no \in A.pitches, ve \in Velocities, ch \in A.on_channels,
          dt \in A.deltas : NoteAdded(no, ve, ch, dt)
    \/ \E ty \in A.releases, no \in A.pitches, ch \in A.channels, dt \in A.deltas :
          NoteReleased(ty, no, ch, dt)

\* A message of another type, drawn from the alphabet A, is read
OtherStep(A) ==
    \/ \E pr \in Programs, dr \in A.drums, ch \in A.channels, dt \in A.deltas :
          ProgramChange(pr, dr, ch, dt)
    \/ \E ty \in A.ignored, dt \in A.deltas : Ignored(ty, dt)
    \/ \E ty \in OtherTypes, dt \in A.deltas : Unsupported(ty, dt)

\* load_file on a file whose track has only the messages of Rich
Next == CheckFormat \/ NoteStep(Rich) \/ TrackRead

\* load_file on a file whose tracks have the messages of Plain
NextSong == CheckFormat \/ NoteStep(Plain) \/ OtherStep(Plain) \/ TrackRead

\* load_file on a file whose track has the messages of Typed
NextTypes ==
    \/ CheckFormat
    \/ \E ty \in Typed.metas, dt \in Typed.deltas : MetaMessage(ty, dt)
    \/ \E no \in Typed.pitches, ve \in Velocities, ch \in Typed.on_channels,
          dt \in Typed.deltas :
          nb_created + 1 < MINIMUM_TRACK_LENGTH /\ NoteAdded(no, ve, ch, dt)
    \/ \E ty \in Typed.releases, no \in Typed.pitches, ch \in Typed.channels,
          dt \in Typed.deltas : NoteReleased(ty, no, ch, dt)
    \/ \E pr \in Typed.programs, dr \in Typed.drums, ch \in Typed.channels,
          dt \in Typed.deltas : ProgramChange(pr, dr, ch, dt)
    \/ \E ty \in Typed.ignored, dt \in Typed.deltas : Ignored(ty, dt)
    \/ \E ty \in Typed.others, dt \in Typed.deltas : Unsupported(ty, dt)
    \/ TrackRead

\* load_file on a file whose tracks have the messages of Timed
NextTicks ==
    \/ CheckFormat
    \/ \E ty \in Timed.metas, dt \in Timed.deltas : MetaMessage(ty, dt)
    \/ \E no \in Timed.pitches, ve \in Velocities, ch \in Timed.on_channels,
          dt \in Timed.deltas :
          nb_created + 1 < MINIMUM_TRACK_LENGTH /\ NoteAdded(no, ve, ch, dt)
    \/ \E ty \in Timed.releases, no \in Timed.pitches, ch \in Timed.channels,
          dt \in Timed.deltas : NoteReleased(ty, no, ch, dt)
    \/ \E ty \in Timed.ignored, dt \in Timed.deltas : Ignored(ty, dt)
    \/ TrackRead

Spec == Init /\ [][Next]_vars
SpecTicks == InitSong /\ [][NextTicks]_vars
SpecTypes == Init /\ [][NextTypes]_vars
SpecSong == InitSong /\ [][NextSong]_vars

\* ======================================================== properties
GateFailures == {"UnsupportedFormat", "UnsupportedTiming", "StructuralViolation"}
TrackFailures == {"MisplacedTempoMeta", "UnsupportedMeta", "ChannelTrackMismatch",
                  "DuplicateInstrument", "UnsupportedMessage", "UnterminatedNote"}

\* message is a release: note_off, or note_on with velocity 0
IsRelease(m) == m.type = "note_off" \/ (m.type = "note_on" /\ m.velocity = 0)

\* this step reads a message of track i (and is not the end of the track)
MessageStep == pc = "messages" /\ pc' = "messages" /\ track_log' = track_log
\* this step can be the reading of a message of type ty and delta-time dt in
\* track i: the message is passed, or the load ends
Reading(ty, dt) ==
    /\ pc = "messages"
    /\ pc' = "done" \/ (message'.type = ty /\ message'.time = dt)
\* this step is the end of the message loop of track i
TrackReadStep == pc = "messages" /\ Len(track_log') = Len(track_log) + 1

Open(no) == {k \in 1 .. Len(buffer_notes) : buffer_notes[k].note = no}
Oldest(no) == CHOOSE k \in Open(no) : \A j \in Open(no) : k <= j
Ids(s) == {s[k].id : k \in 1 .. Len(s)}
AllTracks == {new_track} \cup {new_song[k] : k \in 1 .. Len(new_song)}

\* C1: a release of pitch P that finds an open note of pitch P closes exactly
\* one note: one note leaves the buffer, one is added to the finalized list,
\* and every other open note stays in the buffer.
C1_ReleaseClosesOneNote ==
    [][MessageStep /\ IsRelease(message') /\ Open(message'.note) # {}
       => /\ Len(buffer_notes') = Len(buffer_notes) - 1
          /\ Len(new_track'.notes) = Len(new_track.notes) + 1
          /\ buffer_notes' = RemoveAt(buffer_notes, Oldest(message'.note))]_vars

\* C2: a release of pitch P at tick T that finds open notes of pitch P
\* finalizes the oldest of them, with duration T minus its onset tick and with
\* its pitch and onset tick unchanged.
C2_OldestIsFinalized ==
    [][MessageStep /\ IsRelease(message') /\ Open(message'.note) # {}
       => LET old == buffer_notes[Oldest(message'.note)]
              new == new_track'.notes[Len(new_track.notes) + 1]
          IN  /\ Len(new_track'.notes) > Len(new_track.notes)
              /\ SubSeq(new_track'.notes, 1, Len(new_track.notes)) = new_track.notes
              /\ new.id = old.id
              /\ new.note = old.note
              /\ new.tick = old.tick
              /\ new.duration = abs_tick' - old.tick
              /\ old.id \notin Ids(buffer_notes')]_vars

\* C2 witness: the older of two open notes of one pitch was finalized with
\* duration 1 and the younger is still open
C2_Witness ==
    /\ pc = "messages"
    /\ IsRelease(message)
    /\ new_track.notes # <<>>
    /\ LET last == new_track.notes[Len(new_track.notes)]
       IN  /\ last.duration = 1
           /\ last.note = message.note
           /\ \E k \in 1 .. Len(buffer_notes) :
                 buffer_notes[k].note = last.note /\ buffer_notes[k].id > last.id

SortedBy(s, key(_)) == \A a, b \in 1 .. Len(s) : a < b => key(s[a]) <= key(s[b])
Onset(n) == n.tick
ReleaseTick(n) == n.tick + n.duration

\* C3 as stated: in every track, at every point of the reconstruction and in
\* the returned Song, the finalized notes are in non-decreasing onset order.
C3_SortedByOnset == \A t \in AllTracks : SortedBy(t.notes, Onset)

\* C3 amended: the finalized notes are in non-decreasing order of the tick at
\* which they were released (onset tick + duration).
C3_SortedByReleaseTick == \A t \in AllTracks : SortedBy(t.notes, ReleaseTick)

\* C3 witness: a returned Song with a track whose notes were released at
\* different ticks and are not in onset order
C3_Witness ==
    /\ result.kind = "Song"
    /\ \E k \in 1 .. Len(new_song) :
          /\ ~SortedBy(new_song[k].notes, Onset)
          /\ \E a, b \in 1 .. Len(new_song[k].notes) :
                ReleaseTick(new_song[k].notes[a]) # ReleaseTick(new_song[k].notes[b])

Taxonomy == GateFailures \cup TrackFailures \cup {"EmptySong"}
Retained == {k \in 1 .. Len(track_log) : track_log[k].kept}
AllClosed == \A k \in 1 .. Len(track_log) : track_log[k].open = 0

\* C4: when the format checks pass, the load ends either with a Song all of
\* whose tracks ended with no open note, or with one failure of the taxonomy;
\* until it ends there is no result.
C4_SongOrFailure ==
    /\ pc # "done" <=> result = Running
    /\ pc = "done" /\ FormatError = "none"
       => \/ /\ result = Returned
             /\ new_song # <<>>
             /\ Len(track_log) = nb_tracks - 1
             /\ AllClosed
          \/ /\ result.kind \in Taxonomy
             /\ new_song = <<>>

\* C4 witness: a Song returned from a file of two tracks after the tempo map
C4_Witness ==
    /\ pc = "done"
    /\ result = Returned
    /\ Len(track_log) >= 2

\* C5: once a track has failed, the load has ended with that failure, no
\* Song is returned whatever was appended to the song before, and nothing
\* more is read: no track after the failing one has been read to its end.
C5_FailureAbortsLoad ==
    result.kind \in TrackFailures
    => /\ pc = "done"
       /\ result # Returned
       /\ new_song = <<>>
       /\ ~ENABLED NextSong
       /\ result.track \in 1 .. (nb_tracks - 1)
       /\ Len(track_log) \in {result.track - 1, result.track}

\* C5 witness: a track fails after an earlier track was appended to the song
C5_Witness ==
    /\ result.kind \in TrackFailures
    /\ Retained # {}
    /\ result.track = 2

\* C6: at the end of a track with n > 0 notes still open the load fails with
\* UnterminatedNote(n), whatever the track's length and drum flag, and
\* nothing is appended; with no open note it does not fail so.
C6_UnterminatedNote ==
    [][TrackReadStep
       => IF buffer_notes # <<>>
             THEN /\ result' = Failure("UnterminatedNote", Len(buffer_notes), i)
                  /\ pc' = "done"
                  /\ new_song' = <<>>
             ELSE result'.kind # "UnterminatedNote"]_vars

\* C6 witness: a drum track of fewer than MINIMUM_TRACK_LENGTH notes fails
\* with the number of its open notes
C6_Witness ==
    /\ result.kind = "UnterminatedNote"
    /\ result.count = 2
    /\ LET last == track_log[Len(track_log)]
       IN  /\ last.open = 2
           /\ last.drum
           /\ last.notes < MINIMUM_TRACK_LENGTH
           /\ ~last.kept

\* C7: past the format checks of a file with a first track: type # 1 gives
\* UnsupportedFormat; else a resolution outside 1..127 UnsupportedTiming;
\* else a non-meta message in the first track StructuralViolation; else the
\* checks pass; a failure of the checks is raised before the track loop
\* (track 0), no track having been read.
C7_FormatGate ==
    LET typeOk == midi_type = 1
        timingOk == 0 < ticks_per_beat /\ ticks_per_beat < 128
        mapOk == \A k \in 1 .. Len(tempo_map) : tempo_map[k]
    IN  pc # "start" /\ nb_tracks > 0
        => /\ ~typeOk => result = Failure("UnsupportedFormat", 0, 0)
           /\ typeOk /\ ~timingOk => result = Failure("UnsupportedTiming", 0, 0)
           /\ typeOk /\ timingOk /\ ~mapOk
              => result = Failure("StructuralViolation", 0, 0)
           /\ typeOk /\ timingOk /\ mapOk <=> result.kind \notin GateFailures
           /\ result.kind \in GateFailures => track_log = <<>>

\* C7 witness: the third check fails (the first two having passed) on a file
\* with a track after the tempo map
C7_Witness ==
    /\ result.kind = "StructuralViolation"
    /\ nb_tracks >= 2

\* C8: a track read without failure is appended to the song iff it has at
\* least MINIMUM_TRACK_LENGTH (4) notes and is not a drum track; a track that
\* is dropped does not fail the load (save EmptySong when nothing was kept).
C8_TrackFilter ==
    [][TrackReadStep /\ buffer_notes = <<>>
       => LET keep == Len(new_track.notes) >= MINIMUM_TRACK_LENGTH
                      /\ ~new_track.is_drum
          IN  /\ new_song' = IF keep THEN Append(new_song, new_track) ELSE new_song
              /\ ~keep => /\ result'.kind \in {"none", "Song", "EmptySong"}
                          /\ result'.kind = "EmptySong" => new_song = <<>>]_vars

\* C8 witness: a Song of one track of exactly 4 notes, from a file with
\* another track of 3 notes, not a drum track, which is not in it
C8_Witness ==
    /\ result = Returned
    /\ Len(new_song) = 1
    /\ Len(new_song[1].notes) = 4
    /\ \E k \in 1 .. Len(track_log) :
          /\ track_log[k] = [open |-> 0, notes |-> 3, drum |-> FALSE, kept |-> FALSE]
          /\ new_song[1].src # k

\* C9: the tracks of the song, while it is built and when it is returned,
\* are the tracks kept so far, each once, in the order of the source.
C9_SongInSourceOrder ==
    result.kind \in {"none", "Song"}
    =>
    /\ \A a, b \in 1 .. Len(new_song) : a < b => new_song[a].src < new_song[b].src
    /\ {new_song[a].src : a \in 1 .. Len(new_song)} = Retained
    /\ Len(new_song) = Cardinality(Retained)

\* C9 witness: a Song of two tracks
C9_Witness ==
    /\ result = Returned
    /\ Len(new_song) = 2
    /\ Retained = {1, 2}

\* C10: when the format checks pass and every track is read to its end with
\* no note open, the load has ended: with EmptySong iff no track was kept,
\* else with a Song of the kept tracks (at least one).
C10_EmptySong ==
    pc # "start" /\ FormatError = "none" /\ Len(track_log) = nb_tracks - 1 /\ AllClosed
    => /\ pc = "done"
       /\ result.kind = "EmptySong" <=> Retained = {}
       /\ Retained # {} => /\ result = Returned
                           /\ Len(new_song) = Cardinality(Retained)
                           /\ Len(new_song) >= 1

\* C10 witness: EmptySong from a file whose two tracks were both dropped
C10_Witness ==
    /\ result.kind = "EmptySong"
    /\ Len(track_log) = 2

\* C11: a note_on with a velocity read in track i (i counts every track of
\* the file after the tempo map, the ignored ones too) is added to the buffer
\* only if its channel is i - 1; ChannelTrackMismatch is raised from the
\* message loop of the track being read, ends the load, and leaves no song.
C11_ChannelIsTrackIndex ==
    [][/\ MessageStep /\ message'.type = "note_on" /\ message'.velocity # 0
          => /\ i = Len(track_log) + 1
             /\ message'.channel = i - 1
             /\ Len(buffer_notes') = Len(buffer_notes) + 1
             /\ buffer_notes'[Len(buffer_notes')].note = message'.note
       /\ result.kind = "none" /\ result'.kind = "ChannelTrackMismatch"
          => /\ pc = "messages" /\ pc' = "done"
             /\ result'.track = Len(track_log) + 1
             /\ buffer_notes' = <<>> /\ new_song' = <<>>
             /\ track_log' = track_log]_vars

\* C11 witness: the second track, read after an ignored first track, has a
\* note of channel 1 in its buffer
C11_Witness ==
    /\ pc = "messages" /\ i = 2
    /\ ~track_log[1].kept
    /\ message.type = "note_on" /\ message.velocity # 0 /\ message.channel = 1
    /\ buffer_notes # <<>>

\* C12: in one track, a program_change is passed only while the track has no
\* instrument, and it sets the instrument to its program; no other message
\* sets it and once set it does not change; DuplicateInstrument is raised
\* only by a track that has its instrument; every track starts without one.
C12_InstrumentSetOnce ==
    [][/\ MessageStep /\ message'.type = "program_change"
          => /\ new_track.instrument = NoInstrument
             /\ new_track'.instrument = message'.program
       /\ MessageStep /\ message'.type # "program_change"
          => new_track'.instrument = new_track.instrument
       /\ MessageStep /\ new_track.instrument # NoInstrument
          => new_track'.instrument = new_track.instrument
       /\ result.kind = "none" /\ result'.kind = "DuplicateInstrument"
          => /\ pc = "messages" /\ pc' = "done"
             /\ new_track.instrument # NoInstrument
             /\ result'.track = i
       /\ pc' = "messages" /\ i' # i
          => new_track'.instrument = NoInstrument]_vars

\* C12 witness: the second track has its instrument, set by its own
\* program_change, after a first track that had set one too
C12_Witness ==
    /\ pc = "messages" /\ i = 2
    /\ track_log[1].drum
    /\ message.type = "program_change"
    /\ new_track.instrument = message.program

\* C13: in a track after the tempo map, a meta message of type midi_port,
\* track_name, lyrics or end_of_track is passed; one of type key_signature,
\* set_tempo or time_signature raises MisplacedTempoMeta; one of any other
\* type raises UnsupportedMeta; a message that is not a meta message and is
\* not a note_on, note_off, program_change, control_change, aftertouch or
\* pitchwheel raises UnsupportedMessage.
C13_MessageTypes ==
    [][/\ \A ty \in Typed.metas, dt \in Typed.deltas :
             Reading(ty, dt) /\ MetaMessage(ty, dt)
             => IF ty \in {"midi_port", "track_name", "lyrics", "end_of_track"}
                   THEN MessageStep /\ result' = Running /\ message'.type = ty
                ELSE IF ty \in {"key_signature", "set_tempo", "time_signature"}
                   THEN pc' = "done" /\ result' = Failure("MisplacedTempoMeta", 0, i)
                   ELSE pc' = "done" /\ result' = Failure("UnsupportedMeta", 0, i)
       /\ \A ty \in Typed.others, dt \in Typed.deltas :
             Reading(ty, dt) /\ Unsupported(ty, dt)
             => pc' = "done" /\ result' = Failure("UnsupportedMessage", 0, i)
       /\ MessageStep
          => IF message'.meta
                THEN message'.type \in {"midi_port", "track_name", "lyrics",
                                        "end_of_track"}
                ELSE message'.type \in {"note_on", "note_off", "program_change",
                                        "control_change", "aftertouch", "pitchwheel"}
       /\ /\ result.kind = "none"
          /\ result'.kind \in {"MisplacedTempoMeta", "UnsupportedMeta",
                                "UnsupportedMessage"}
          => pc = "messages" /\ result'.track = i]_vars

\* C13 witness: the load has ended with UnsupportedMeta in the first track
\* after the tempo map
C13_Witness ==
    /\ pc = "done"
    /\ result = Failure("UnsupportedMeta", 0, 1)
    /\ track_log = <<>>

\* C14: a release of pitch P read while no note of pitch P is in the buffer
\* raises nothing and changes neither the buffer, nor the track's notes, nor
\* its instrument: only abs_tick moves on, by the delta-time of the message.
C14_UnmatchedReleaseIgnored ==
    [][/\ \A ty \in Timed.releases, no \in Timed.pitches, ch \in Timed.channels,
             dt \in Timed.deltas :
             Open(no) = {} /\ Reading(ty, dt) /\ NoteReleased(ty, no, ch, dt)
             => /\ MessageStep /\ result' = Running
                /\ message'.type = ty /\ message'.note = no
       /\ MessageStep /\ IsRelease(message') /\ Open(message'.note) = {}
          => /\ buffer_notes' = buffer_notes
             /\ new_track' = new_track
             /\ abs_tick' = abs_tick + message'.time
             /\ UNCHANGED <<i, new_song, nb_created, result>>]_vars

\* C14 witness: a release of pitch 62 has moved abs_tick to 1 while a note of
\* pitch 60 is pressed and no note of pitch 62 was ever released
C14_Witness ==
    /\ pc = "messages"
    /\ IsRelease(message) /\ message.note = 62 /\ message.time = 1
    /\ abs_tick = 1
    /\ buffer_notes # <<>> /\ new_track.notes # <<>>
    /\ \A k \in 1 .. Len(buffer_notes) : buffer_notes[k].note = 60 /\ buffer_notes[k].tick = 0
    /\ \A k \in 1 .. Len(new_track.notes) : new_track.notes[k].note = 60

\* C15: a meta message of an informational type, a control_change, an
\* aftertouch or a pitchwheel raises nothing and changes neither the buffer,
\* nor the track's notes, nor its instrument: only abs_tick moves on, by the
\* delta-time of the message.
C15_IgnoredMessages ==
    [][/\ \A ty \in {"midi_port", "track_name", "lyrics", "end_of_track"},
             dt \in Typed.deltas :
             Reading(ty, dt) /\ MetaMessage(ty, dt)
             => MessageStep /\ result' = Running /\ message'.meta /\ message'.type = ty
       /\ \A ty \in {"control_change", "aftertouch", "pitchwheel"},
             dt \in Typed.deltas :
             Reading(ty, dt) /\ Ignored(ty, dt)
             => MessageStep /\ result' = Running /\ ~message'.meta /\ message'.type = ty
       /\ /\ MessageStep
          /\ \/ message'.meta
             \/ message'.type \in {"control_change", "aftertouch", "pitchwheel"}
          => /\ buffer_notes' = buffer_notes
             /\ new_track' = new_track
             /\ abs_tick' = abs_tick + message'.time
             /\ UNCHANGED <<i, new_song, nb_created, result>>]_vars

\* C15 witness: a control_change of delta-time 1 has been read in a track
\* that has a pressed note, a released note and an instrument
C15_Witness ==
    /\ pc = "messages"
    /\ message.type = "control_change" /\ message.time = 1
    /\ abs_tick = 1
    /\ buffer_notes # <<>> /\ new_track.notes # <<>>
    /\ \A k \in 1 .. Len(buffer_notes) : buffer_notes[k].tick = 0
    /\ new_track.instrument # NoInstrument

\* the notes of the track being read, pressed or released
TrackNotes == {buffer_notes[k] : k \in 1 .. Len(buffer_notes)}
              \cup {new_track.notes[k] : k \in 1 .. Len(new_track.notes)}

\* C16: the tick of a note is the sum of the delta-times of the messages of
\* its own track up to and with its note_on, meta messages and ignored
\* messages counted.  Step by step: abs_tick is 0 when a track begins; every
\* message read, of whatever type, adds its delta-time to abs_tick; a new
\* note gets the abs_tick that already holds the delta-time of its note_on;
\* the tick of a note never changes afterwards.
C16_OnsetTick ==
    [][/\ pc' = "messages" /\ i' # i
          => abs_tick' = 0 /\ buffer_notes' = <<>> /\ new_track'.notes = <<>>
       /\ MessageStep
          => /\ i' = i
             /\ abs_tick' = abs_tick + message'.time
             /\ \A n \in TrackNotes' : \A o \in TrackNotes :
                   n.id = o.id => n.tick = o.tick
       /\ MessageStep /\ message'.type = "note_on" /\ message'.velocity # 0
          => LET n == buffer_notes'[Len(buffer_notes')]
             IN  /\ n.id \notin {o.id : o \in TrackNotes}
                 /\ n.tick = abs_tick + message'.time]_vars

\* C16 witness: in the second track, the first note, whose note_on has
\* delta-time 0, has tick 1: the delta-times of the messages before it
C16_Witness ==
    /\ pc = "messages" /\ i = 2
    /\ message.type = "note_on" /\ message.velocity # 0 /\ message.time = 0
    /\ nb_created = 1
    /\ Len(buffer_notes) = 1 /\ buffer_notes[1].tick = 1
    /\ abs_tick = 1

\* C17: in every state, every note of the notes of a track (the track being
\* read or a track of the song) has a duration, and it is not negative; every
\* note of the buffer has no duration yet.
C17_Durations ==
    /\ \A t \in AllTracks : \A k \in 1 .. Len(t.notes) :
          /\ t.notes[k].duration # NoDuration
          /\ t.notes[k].duration >= 0
    /\ \A k \in 1 .. Len(new_track.notes) :
          ReleaseTick(new_track.notes[k]) <= abs_tick
    /\ \A k \in 1 .. Len(buffer_notes) : buffer_notes[k].duration = NoDuration

\* C17 witness: a released note of duration 1 and a pressed note
C17_Witness ==
    /\ pc = "messages"
    /\ buffer_notes # <<>>
    /\ \E k \in 1 .. Len(new_track.notes) : new_track.notes[k].duration = 1

\* C18: while a track is read, the number of note_on messages accepted so
\* far in it is the size of the buffer plus the size of the track's notes;
\* no note is in both, and no note is twice in either.
C18_NoteConservation ==
    pc = "messages"
    => /\ nb_created = Len(buffer_notes) + Len(new_track.notes)
       /\ Ids(buffer_notes) \cap Ids(new_track.notes) = {}
       /\ Cardinality(Ids(new_track.notes)) = Len(new_track.notes)
       /\ Cardinality(Ids(buffer_notes)) = Len(buffer_notes)
       /\ Ids(buffer_notes) \cup Ids(new_track.notes) = 1 .. nb_created

\* C18 witness: of three notes accepted, two are released and one is pressed
C18_Witness ==
    /\ pc = "messages"
    /\ nb_created = 3
    /\ Len(new_track.notes) = 2
    /\ Len(buffer_notes) = 1

\* this step reads a message of track i that breaks a rule
ViolationStep ==
    \/ \E ty \in Plain.metas \ META_INFO_TYPES, dt \in Plain.deltas :
          MetaMessage(ty, dt)
    \/ \E no \in Plain.pitches, ve \in Velocities,
          ch \in Plain.on_channels \ {i - 1}, dt \in Plain.deltas :
          NoteAdded(no, ve, ch, dt)
    \/ \E pr \in Programs, dr \in Plain.drums, ch \in Plain.channels,
          dt \in Plain.deltas :
          new_track.instrument # NoInstrument /\ ProgramChange(pr, dr, ch, dt)
    \/ \E ty \in OtherTypes, dt \in Plain.deltas : Unsupported(ty, dt)

\* C19: the failure the load ends with is that of the first violation, in the
\* order tracks are read and, within a track, messages are read, the check
\* for open notes at the end of track k coming before any message of track
\* k + 1, and EmptySong coming only when no track failed.  A message that
\* breaks a rule ends the load at once with a failure of the track being
\* read; while track i is read, and when a message of track i fails, every
\* earlier track was read to its end with no open note; an UnterminatedNote
\* is of the last track read to its end; EmptySong follows the end of the
\* last track; nothing is read once there is a result.
C19_FirstViolation ==
    /\ [](/\ pc = "messages" => i = Len(track_log) + 1 /\ AllClosed
          /\ result.kind \in TrackFailures \ {"UnterminatedNote"}
             => Len(track_log) = result.track - 1 /\ AllClosed
          /\ result.kind = "UnterminatedNote"
             => /\ Len(track_log) = result.track
                /\ track_log[result.track].open = result.count
                /\ result.count > 0
                /\ \A k \in 1 .. (result.track - 1) : track_log[k].open = 0
          /\ result.kind = "EmptySong"
             => Len(track_log) = nb_tracks - 1 /\ AllClosed)
    /\ [][/\ result.kind # "none" => FALSE
          /\ ViolationStep
             => /\ pc' = "done"
                /\ result'.kind \in TrackFailures \ {"UnterminatedNote"}
                /\ result'.track = i
          /\ MessageStep => i' = i /\ result' = Running]_vars

\* C19 witness: the first violation of the file is the open note at the end
\* of its second track, the first track having ended with no open note
C19_Witness ==
    /\ result.kind = "UnterminatedNote"
    /\ result.track = 2
    /\ Len(track_log) = 2
    /\ track_log[1].open = 0
    /\ track_log[2].open > 0

\* C20: a release and a program_change are handled whatever their channel: a
\* release raises nothing and, on any channel, closes the oldest pressed note
\* of its pitch if there is one; a program_change on any channel sets the
\* instrument of a track that has none and raises nothing but
\* DuplicateInstrument; ChannelTrackMismatch is raised only by a note_on with
\* a velocity whose channel is not i - 1.
C20_ChannelOnlyForNoteOn ==
    [][/\ \A ty \in Typed.releases, no \in Typed.pitches, ch \in Typed.channels,
             dt \in Typed.deltas :
             Reading(ty, dt) /\ NoteReleased(ty, no, ch, dt)
             => /\ MessageStep /\ result' = Running
                /\ message'.channel = ch
                /\ Open(no) # {}
                   => /\ Len(new_track'.notes) > Len(new_track.notes)
                      /\ new_track'.notes[Len(new_track.notes) + 1].id
                            = buffer_notes[Oldest(no)].id
                      /\ buffer_notes[Oldest(no)].id \notin Ids(buffer_notes')
       /\ \A pr \in Typed.programs, dr \in Typed.drums, ch \in Typed.channels,
             dt \in Typed.deltas :
             Reading("program_change", dt) /\ ProgramChange(pr, dr, ch, dt)
             => /\ result'.kind \in {"none", "DuplicateInstrument"}
                /\ new_track.instrument = NoInstrument
                   => /\ MessageStep /\ message'.channel = ch
                      /\ new_track'.instrument = pr
       /\ result.kind = "none" /\ result'.kind = "ChannelTrackMismatch"
          => \E no \in Typed.pitches, ve \in Velocities,
                ch \in Typed.on_channels \ {i - 1}, dt \in Typed.deltas :
                NoteAdded(no, ve, ch, dt)]_vars

\* C20 witness: in the track of channel 0, a release of channel 1 read at
\* tick 1 has closed a note pressed at tick 0
C20_Witness ==
    /\ pc = "messages" /\ i = 1
    /\ IsRelease(message) /\ message.channel = 1 /\ message.time = 1
    /\ abs_tick = 1
    /\ new_track.notes # <<>>
    /\ LET last == new_track.notes[Len(new_track.notes)]
       IN  last.note = message.note /\ last.tick = 0 /\ last.duration = 1

====
